---- MODULE Spec2Model ----
(***************************************************************************)
(* Pipeline ledger (scripts/common.py), the operator scripts that use it   *)
(* (download, transcribe, split, translate, reset_step, delete) and the    *)
(* subtitle chunking of scripts/split.py.                                  *)
(*                                                                         *)
(* Records with optional fields (StepRecord, VideoRecord, HistoryEntry)    *)
(* are functions from field names to values; a dict update is the merge    *)
(* new @@ old, a dict assignment replaces the value.                       *)
(***************************************************************************)
EXTENDS Integers, Sequences, FiniteSets, TLC

\* ---------------------------------------------------------------- bounds

\* Operator invocations (and file losses) in one behaviour of the ledger.
MaxOps == 2
\* Longest cue sequence given to chunk_cues.
MaxCues == 2
\* Largest time value (seconds) of a cue boundary given to chunk_cues.
MaxTime == 3
\* Longest video collection given to compute_analytics.
MaxVideos == 2
\* Largest updatedAt of a StepRecord given to compute_analytics.
MaxStamp == 2
\* Most blocks in a subtitle document given to parse_srt on its own.
MaxBlocks == 2
\* Time steps per millisecond in the timestamps given to format_timestamp.
TicksPerMs == 4

\* ------------------------------------------------------- python values

\* Python's None, for the string-valued fields (notes, workflow, actor).
None == "None"
\* Python's None for a timestamp (lastRunAt); real timestamps are >= 1.
NoTime == 0

Has(d, k) == k \in DOMAIN d
\* d.get(k, default)
Get(d, k, default) == IF k \in DOMAIN d THEN d[k] ELSE default
\* {} : the empty dict
EmptyDict == [k \in {} |-> None]
\* d.pop(k, None) on a dict
Pop(d, k) == [x \in (DOMAIN d) \ {k} |-> d[x]]
\* d[k] = v on a dict
Put(d, k, v) == [x \in (DOMAIN d) \cup {k} |-> IF x = k THEN v ELSE d[x]]

\* ------------------------------------------------ common.py: analytics

JobKeys == {"download", "transcribe", "split", "translate-ar", "translate-tr", "delete"}

default_job_stat ==
    [lastRunAt |-> NoTime, success |-> 0, failed |-> 0, running |-> 0, queued |-> 0]

\* update_job_from_step that tallies a step only when it is not older than
\* the last one seen.
update_job_from_step_newer(job, step) ==
    LET at == Get(step, "updatedAt", NoTime)
        newer == at >= job.lastRunAt
        j1 == [job EXCEPT !.lastRunAt = IF at # NoTime THEN at ELSE job.lastRunAt]
        j2 == IF Get(step, "status", None) = "completed" /\ newer
              THEN [j1 EXCEPT !.success = @ + 1] ELSE j1
    IN  IF Get(step, "status", None) = "failed" /\ newer
        THEN [j2 EXCEPT !.failed = @ + 1] ELSE j2

update_job_from_step(job, step) ==
    LET at == Get(step, "updatedAt", NoTime)
        j1 == [job EXCEPT !.lastRunAt = IF at # NoTime THEN at ELSE job.lastRunAt]
        j2 == IF Get(step, "status", None) = "completed"
              THEN [j1 EXCEPT !.success = @ + 1] ELSE j1
    IN  IF Get(step, "status", None) = "failed"
        THEN [j2 EXCEPT !.failed = @ + 1] ELSE j2

ZeroTotals ==
    [videos |-> 0, downloaded |-> 0, transcribed |-> 0, split |-> 0,
     translatedAr |-> 0, translatedTr |-> 0, runtimeSeconds |-> 0, storageBytes |-> 0]

\* One iteration of the loop of compute_analytics: acc = [totals, jobs].
AnalyticsStep(acc, video) ==
    LET download      == Get(video, "download", EmptyDict)
        transcription == Get(video, "transcription", EmptyDict)
        split         == Get(video, "split", EmptyDict)
        translations  == Get(video, "translations", EmptyDict)
        ar            == Get(translations, "ar", EmptyDict)
        tr            == Get(translations, "tr", EmptyDict)
        metrics       == Get(video, "metrics", EmptyDict)
        done(step)    == Get(step, "status", None) = "completed"
        bump(n, step) == IF done(step) THEN n + 1 ELSE n
        job(j, step)  == IF done(step) THEN update_job_from_step(j, step) ELSE j
        t == acc.totals
        j == acc.jobs
    IN  [totals |->
            [t EXCEPT !.downloaded     = bump(@, download),
                      !.transcribed    = bump(@, transcription),
                      !.split          = bump(@, split),
                      !.translatedAr   = bump(@, ar),
                      !.translatedTr   = bump(@, tr),
                      !.runtimeSeconds = @ + Get(metrics, "runtimeSeconds", 0),
                      !.storageBytes   = @ + Get(metrics, "storageBytes", 0)],
         jobs |->
            [j EXCEPT !["download"]     = job(@, download),
                      !["transcribe"]   = job(@, transcription),
                      !["split"]        = job(@, split),
                      !["translate-ar"] = job(@, ar),
                      !["translate-tr"] = job(@, tr)]]

RECURSIVE AnalyticsFold(_, _)
AnalyticsFold(acc, videos) ==
    IF videos = << >> THEN acc
    ELSE AnalyticsFold(AnalyticsStep(acc, Head(videos)), Tail(videos))

compute_analytics(videos) ==
    LET r == AnalyticsFold(
                [totals |-> [ZeroTotals EXCEPT !.videos = Len(videos)],
                 jobs   |-> [k \in JobKeys |-> default_job_stat]],
                videos)
    IN  [totals |-> r.totals, jobs |-> r.jobs, activeJobs |-> << >>]

\* --------------------------------------------------- common.py: ledger

\* db/index.json does not exist.
NoFile == [missing |-> TRUE]

\* load_db() at time now, the ledger file holding `file`.
load_db(file, now) ==
    IF file = NoFile
    THEN [version |-> 1, updatedAt |-> now, videos |-> << >>,
          analytics |-> [totals |-> ZeroTotals, jobs |-> EmptyDict, activeJobs |-> << >>]]
    ELSE file

\* save_db that writes the ledger without recomputing the analytics.
save_db_stale(db, now) ==
    [db EXCEPT !.updatedAt = now]

\* save_db(db): the ledger as written (and as left in memory).
save_db(db, now) ==
    [db EXCEPT !.updatedAt = now, !.analytics = compute_analytics(db.videos)]

\* Index of the first record with this id, 0 when there is none.
VideoIndex(videos, id) ==
    IF \E i \in 1..Len(videos) : videos[i].id = id
    THEN CHOOSE i \in 1..Len(videos) :
            /\ videos[i].id = id
            /\ \A j \in 1..(i - 1) : videos[j].id # id
    ELSE 0

NewVideo(id, now) ==
    [id |-> id, title |-> id, createdAt |-> now, updatedAt |-> now,
     download |-> [status |-> "pending"],
     transcription |-> [status |-> "pending"],
     split |-> [status |-> "pending", parts |-> << >>],
     translations |-> EmptyDict,
     history |-> << >>]

\* ensure_video without the lookup: it always creates a record.
ensure_video_always(db, id, now) ==
    [db EXCEPT !.videos = Append(@, NewVideo(id, now))]

\* ensure_video(db, video_id): the ledger afterwards; the record returned is
\* the one at VideoIndex of it.
ensure_video(db, id, now) ==
    IF VideoIndex(db.videos, id) # 0 THEN db
    ELSE [db EXCEPT !.videos = Append(@, NewVideo(id, now))]

append_history(video, event, status, notes, workflow, now) ==
    [video EXCEPT !.history = Append(@,
        [timestamp |-> now, event |-> event, status |-> status,
         workflow |-> workflow, notes |-> notes])]

\* set_actor that picks the first history entry instead of the last.
set_actor_first(video, actor) ==
    IF actor = None THEN video
    ELSE [video EXCEPT !.history[1] = Put(@, "actor", actor)]

\* video.setdefault('history', [])[-1]['actor'] = requested_by, when given
set_actor(video, actor) ==
    IF actor = None THEN video
    ELSE [video EXCEPT !.history[Len(video.history)] = Put(@, "actor", actor)]

mark_step(video, step_name, status, fields, now) ==
    LET old == Get(video, step_name, EmptyDict)
        new == fields @@ [status |-> status, updatedAt |-> now]
    IN  [Put(video, step_name, new @@ old) EXCEPT !.updatedAt = now]

StepKeys == {"download", "transcription", "split", "translations.ar", "translations.tr"}

\* reset_step that only sets the status back, keeping the other fields, and
\* leaves a pending placeholder for a translation.
reset_step_status_only(video, step_key, now) ==
    LET pending(step) == [status |-> "pending"] @@ step
        v == CASE step_key = "download" -> [video EXCEPT !.download = pending(@)]
               [] step_key = "transcription" -> [video EXCEPT !.transcription = pending(@)]
               [] step_key = "split" -> [video EXCEPT !.split = pending(@)]
               [] step_key = "translations.ar" ->
                    [video EXCEPT !.translations = Put(@, "ar", [status |-> "pending"])]
               [] step_key = "translations.tr" ->
                    [video EXCEPT !.translations = Put(@, "tr", [status |-> "pending"])]
               [] OTHER -> video
    IN  append_history(v, "reset:" \o step_key, "pending", "Step manually reset", None, now)

\* reset_step whose fallback branch resets the download step.
reset_step_unknown_clears(video, step_key, now) ==
    LET v == CASE step_key = "transcription" ->
                    [video EXCEPT !.transcription = [status |-> "pending"]]
               [] step_key = "split" ->
                    [video EXCEPT !.split = [status |-> "pending", parts |-> << >>]]
               [] step_key = "translations.ar" ->
                    [video EXCEPT !.translations = Pop(@, "ar")]
               [] step_key = "translations.tr" ->
                    [video EXCEPT !.translations = Pop(@, "tr")]
               [] OTHER -> [video EXCEPT !.download = [status |-> "pending"]]
    IN  append_history(v, "reset:" \o step_key, "pending", "Step manually reset", None, now)

\* reset_step that resets split without its empty parts list.
reset_step_no_parts(video, step_key, now) ==
    LET v == CASE step_key = "download" -> [video EXCEPT !.download = [status |-> "pending"]]
               [] step_key = "transcription" ->
                    [video EXCEPT !.transcription = [status |-> "pending"]]
               [] step_key = "split" -> [video EXCEPT !.split = [status |-> "pending"]]
               [] step_key = "translations.ar" ->
                    [video EXCEPT !.translations = Pop(@, "ar")]
               [] step_key = "translations.tr" ->
                    [video EXCEPT !.translations = Pop(@, "tr")]
               [] OTHER -> video
    IN  append_history(v, "reset:" \o step_key, "pending", "Step manually reset", None, now)

reset_step(video, step_key, now) ==
    LET v == CASE step_key = "download" -> [video EXCEPT !.download = [status |-> "pending"]]
               [] step_key = "transcription" ->
                    [video EXCEPT !.transcription = [status |-> "pending"]]
               [] step_key = "split" ->
                    [video EXCEPT !.split = [status |-> "pending", parts |-> << >>]]
               [] step_key = "translations.ar" ->
                    [video EXCEPT !.translations = Pop(@, "ar")]
               [] step_key = "translations.tr" ->
                    [video EXCEPT !.translations = Pop(@, "tr")]
               [] OTHER -> video
    IN  append_history(v, "reset:" \o step_key, "pending", "Step manually reset", None, now)

\* ------------------------------------------------- split.py: chunk_cues

\* cue.text.endswith(('?', '!', '.')); a text is a sequence of characters.
EndsSentence(text) == Len(text) > 0 /\ text[Len(text)] \in {"?", "!", "."}

\* ClosesBatch that cuts at a sentence end however little time has passed.
ClosesBatchOnPunctuation(cue, current, block_start, max_duration, max_lines) ==
    \/ cue.end - block_start >= max_duration
    \/ Len(current) >= max_lines
    \/ /\ Len(current) > 0
       /\ EndsSentence(cue.text)

\* ClosesBatch with the elapsed time taken to the cue's start instead of its end.
ClosesBatchFromStart(cue, current, block_start, max_duration, max_lines) ==
    \/ cue.start - block_start >= max_duration
    \/ Len(current) >= max_lines
    \/ /\ Len(current) > 0
       /\ EndsSentence(cue.text)
       /\ 4 * (cue.end - block_start) >= 3 * max_duration

\* The test that closes the current batch after `cue` was appended to it.
\* Times are whole seconds, so elapsed >= max_duration * 0.75 is stated as
\* 4 * elapsed >= 3 * max_duration.
ClosesBatch(cue, current, block_start, max_duration, max_lines) ==
    \/ cue.end - block_start >= max_duration
    \/ Len(current) >= max_lines
    \/ /\ Len(current) > 0
       /\ EndsSentence(cue.text)
       /\ 4 * (cue.end - block_start) >= 3 * max_duration

\* ChunkLoop without the flush of the trailing batch.
RECURSIVE ChunkLoopNoFlush(_, _, _, _, _, _, _)
ChunkLoopNoFlush(cues, i, batches, current, block_start, max_duration, max_lines) ==
    IF i > Len(cues)
    THEN batches
    ELSE LET cue == cues[i]
             cur == Append(current, cue)
         IN  IF ClosesBatch(cue, cur, block_start, max_duration, max_lines)
             THEN ChunkLoopNoFlush(cues, i + 1, Append(batches, cur), << >>, cue.end,
                                   max_duration, max_lines)
             ELSE ChunkLoopNoFlush(cues, i + 1, batches, cur, block_start,
                                   max_duration, max_lines)

\* The for loop of chunk_cues from cue i on, and the flush after it.
RECURSIVE ChunkLoop(_, _, _, _, _, _, _)
ChunkLoop(cues, i, batches, current, block_start, max_duration, max_lines) ==
    IF i > Len(cues)
    THEN IF current # << >> THEN Append(batches, current) ELSE batches
    ELSE LET cue == cues[i]
             cur == Append(current, cue)
         IN  IF ClosesBatch(cue, cur, block_start, max_duration, max_lines)
             THEN ChunkLoop(cues, i + 1, Append(batches, cur), << >>, cue.end,
                            max_duration, max_lines)
             ELSE ChunkLoop(cues, i + 1, batches, cur, block_start,
                            max_duration, max_lines)

chunk_cues(cues, max_duration, max_lines) ==
    IF cues = << >> THEN << >>
    ELSE ChunkLoop(cues, 1, << >>, << >>, cues[1].start, max_duration, max_lines)


\* ------------------------------------------------------------ artifacts

\* A path is a tuple of strings; the files are a dict from path to content.
DATA_DIR == <<"data">>
\* Path(''), which is the working directory: it exists and is no file.
EmptyPath == << >>
AudioPath(v) == DATA_DIR \o <<v, "audio", "audio.mp3">>
SrtPath(v) == DATA_DIR \o <<v, "transcript.srt">>
PartsDir(v) == DATA_DIR \o <<v, "parts">>
CallsPath(v) == PartsDir(v) \o <<"calls.jsonl">>
PartId(index) == "part-" \o ToString(index)
PartPath(v, index) == PartsDir(v) \o <<PartId(index)>>
\* parts_dir / f"{Path(part['srtPath']).stem}.{language}.srt"
SegmentPath(v, part_path, language) == PartsDir(v) \o <<part_path[Len(part_path)], language>>
TargetPath(v, language) == DATA_DIR \o <<v, "translations", language>>

\* Paths an operator may be given on its command line.
UserAudio == <<"user", "audio.mp3">>
UserSrt == <<"user", "transcript.srt">>
MissingPath == <<"user", "missing">>

\* Path.exists()
Exists(files, path) == path = EmptyPath \/ path \in DOMAIN files
IsDir(path) == path = EmptyPath
IsPrefix(s, t) == Len(s) <= Len(t) /\ SubSeq(t, 1, Len(s)) = s
\* shutil.rmtree(dir)
RmTree(files, dir) == [q \in {x \in DOMAIN files : ~IsPrefix(dir, x)} |-> files[q]]
\* `a or b` on paths
OrPath(a, b) == IF a # EmptyPath THEN a ELSE b

\* ----------------------------------------------- split.py: parse_srt

\* A subtitle document is a sequence of non-empty blocks.  A block has
\* `lines` lines; `index` is its first line when that is an integer and -1
\* otherwise; `timing` tells whether its second line splits into two
\* well-formed timestamps, which are then `start` and `end` (seconds).
Block(lines, index, timing, start, end, text) ==
    [lines |-> lines, index |-> index, timing |-> timing,
     start |-> start, end |-> end, text |-> text]

RECURSIVE ParseBlocks(_, _, _)
ParseBlocks(blocks, i, cues) ==
    IF i > Len(blocks) THEN [ok |-> TRUE, cues |-> cues, error |-> None]
    ELSE LET b == blocks[i] IN
         IF b.lines < 3 THEN ParseBlocks(blocks, i + 1, cues)
         ELSE IF ~b.timing THEN [ok |-> FALSE, cues |-> cues, error |-> "ValueError"]
         ELSE ParseBlocks(blocks, i + 1, Append(cues,
                [index |-> IF b.index >= 0 THEN b.index ELSE Len(cues) + 1,
                 start |-> b.start, end |-> b.end, text |-> b.text]))

parse_srt(blocks) == ParseBlocks(blocks, 1, << >>)

\* The transcripts the transcription engine may produce, by name.
Transcripts == {"talk", "garbled"}
DocOf(name) ==
    IF name = "talk"
    THEN << Block(3, 1, TRUE, 0, 300, <<"a", ".">>), Block(3, 2, TRUE, 300, 500, <<"b">>) >>
    ELSE << Block(3, 1, FALSE, 0, 0, <<"a">>) >>

\* ------------------------- split.py: parse_timestamp, format_timestamp

\* A time is a whole number of ticks, TicksPerMs to the millisecond.  The
\* text HH:MM:SS,mmm is kept as its four numbers: each is printed in decimal
\* (zero-padded to at least two or three digits, never cut) and read back
\* with int(), which returns the number printed.
TicksPerSecond == 1000 * TicksPerMs

parse_timestamp(value) ==
    (value.hours * 3600 + value.minutes * 60 + value.seconds) * TicksPerSecond
        + value.ms * TicksPerMs

\* format_timestamp that drops the carry when the fraction rounds to 1000.
format_timestamp_wrap(seconds, up) ==
    LET whole == seconds \div TicksPerSecond
        fraction == seconds % TicksPerSecond
        q == fraction \div TicksPerMs
        r == fraction % TicksPerMs
        ms == IF 2 * r < TicksPerMs THEN q
              ELSE IF 2 * r > TicksPerMs THEN q + 1
              ELSE IF up THEN q + 1 ELSE q
    IN  [hours |-> whole \div 3600, minutes |-> (whole % 3600) \div 60,
         seconds |-> whole % 60, ms |-> ms % 1000]

\* format_timestamp(seconds).  round() of (seconds - int(seconds)) * 1000
\* goes to the nearest integer; exactly half way the float product may fall
\* on either side, so the tie goes up or down as `up` says.
format_timestamp(seconds, up) ==
    LET whole == seconds \div TicksPerSecond
        fraction == seconds % TicksPerSecond
        q == fraction \div TicksPerMs
        r == fraction % TicksPerMs
        ms == IF 2 * r < TicksPerMs THEN q
              ELSE IF 2 * r > TicksPerMs THEN q + 1
              ELSE IF up THEN q + 1 ELSE q
    IN  [hours |-> whole \div 3600, minutes |-> (whole % 3600) \div 60,
         seconds |-> whole % 60, ms |-> ms]

\* ------------------------------------------ split.py: refine_summary

\* What the summarization service answers to one request.
Responses == {"transport_error", "http_error", "non_json", "message",
              "empty_message", "missing_field", "ill_typed"}

\* refine_summary(summary, ...) with OPENROUTER_API_KEY set or not and the
\* service answering `resp`: the value returned, or the exception raised.
refine_summary(summary, has_key, resp) ==
    IF ~has_key THEN [raised |-> FALSE, value |-> summary, error |-> None, called |-> FALSE]
    ELSE CASE resp = "transport_error" ->
                [raised |-> TRUE, value |-> summary, error |-> "RequestException", called |-> TRUE]
           [] resp = "http_error" ->
                [raised |-> FALSE, value |-> summary, error |-> None, called |-> TRUE]
           [] resp = "non_json" ->
                [raised |-> TRUE, value |-> summary, error |-> "JSONDecodeError", called |-> TRUE]
           [] resp = "message" ->
                [raised |-> FALSE, value |-> "refined", error |-> None, called |-> TRUE]
           [] resp = "ill_typed" ->
                [raised |-> TRUE, value |-> summary, error |-> "TypeError", called |-> TRUE]
           [] OTHER ->
                [raised |-> FALSE, value |-> summary, error |-> None, called |-> TRUE]

\* build_summary(raw_text, language): the heuristic summary, as a token.
build_summary == "heuristic"


\* ----------------------------------------------------- operator scripts

\* Default of chunk_cues' max_lines, which split.py's main never overrides.
DefaultMaxLines == 60

\* What one invocation of an operator script did:
\*   mem     the in-memory ledger when the script reached its exit, before
\*           the save if there was one (NoFile when it never loaded one);
\*   file    the ledger file afterwards;  files  the artifacts afterwards;
\*   loaded  whether load_db ran;  saves  how many times save_db ran;
\*   raised / error  whether an exception left main, and its description;
\*   ext     whether the capability's external collaborator was called;
\*   wrote   the artifact paths written.
Outcome(mem, file, files, loaded, saves, raised, error, ext, wrote) ==
    [mem |-> mem, file |-> file, files |-> files, loaded |-> loaded, saves |-> saves,
     raised |-> raised, error |-> error, ext |-> ext, wrote |-> wrote]

\* The script leaves through ctx.save() / save_db(db).
Saved(db, now, files, raised, error, ext, wrote) ==
    Outcome(db, save_db(db, now), files, TRUE, 1, raised, error, ext, wrote)

\* The script leaves, by return or by an exception, without saving.
Unsaved(db, file, files, raised, error, ext) ==
    Outcome(db, file, files, TRUE, 0, raised, error, ext, {})

\* An exception before WorkflowContext is built.
NotLoaded(file, files, error, ext) ==
    Outcome(NoFile, file, files, FALSE, 0, TRUE, error, ext, {})

SetVideo(db, i, video) == [db EXCEPT !.videos[i] = video]

StepStatus(step) == Get(step, "status", None)

\* What yt-dlp reports for a video, and the size of the audio it fetches.
Metadata(v) ==
    [id |-> v, title |-> "title", channel_id |-> "channel", channel |-> "Channel",
     webpage_url |-> "url", duration |-> 10, filesize |-> 5]

\* download.py main: `meta_ok` and `tool_ok` are whether yt-dlp succeeds at
\* fetch_metadata and at download_audio.
download_main(file, files, now, v, force, actor, meta_ok, tool_ok) ==
    IF ~meta_ok THEN NotLoaded(file, files, "CalledProcessError", TRUE)
    ELSE
    LET db0 == ensure_video(load_db(file, now), v, now)
        i == VideoIndex(db0.videos, v)
        video == db0.videos[i]
        metadata == Metadata(v)
        \* download_audio unlinks audio.* before it runs the tool
        cleared == Pop(files, AudioPath(v))
    IN  IF StepStatus(Get(video, "download", EmptyDict)) = "completed" /\ ~force
        THEN Saved(SetVideo(db0, i,
                    append_history(video, "download", "skipped",
                                   "Download already completed", None, now)),
                   now, files, FALSE, None, TRUE, {})
        ELSE IF tool_ok
        THEN LET v1 == [title |-> metadata.title, channelId |-> metadata.channel_id,
                        channelTitle |-> metadata.channel, sourceUrl |-> metadata.webpage_url,
                        durationSeconds |-> metadata.duration,
                        metrics |-> [storageBytes |-> metadata.filesize,
                                     runtimeSeconds |-> metadata.duration]
                                    @@ Get(video, "metrics", EmptyDict)] @@ video
                 v2 == mark_step(v1, "download", "completed",
                                 [path |-> AudioPath(v), sizeBytes |-> metadata.filesize,
                                  notes |-> "Audio downloaded via yt-dlp"], now)
                 v3 == append_history(v2, "download", "completed",
                                      "Audio download finished", "download.yml", now)
             IN  Saved(SetVideo(db0, i, set_actor(v3, actor)), now,
                       Put(cleared, AudioPath(v), "audio"), FALSE, None, TRUE, {AudioPath(v)})
        ELSE LET v1 == mark_step(video, "download", "failed",
                                 [notes |-> "CalledProcessError"], now)
                 v2 == append_history(v1, "download", "failed", "CalledProcessError", None, now)
             IN  Saved(SetVideo(db0, i, v2), now, cleared, TRUE, "CalledProcessError", TRUE, {})

\* transcribe.py main: `audio_arg` is --audio-path (EmptyPath when not given),
\* `api` whether PARAKEET_API_URL and PARAKEET_API_KEY are set, `tool_ok`
\* whether the engine succeeds on an audio file, `doc` the transcript it writes.
transcribe_main(file, files, now, v, audio_arg, api, tool_ok, doc, actor) ==
    LET db0 == ensure_video(load_db(file, now), v, now)
        i == VideoIndex(db0.videos, v)
        video == db0.videos[i]
        audio_path == OrPath(audio_arg, Get(Get(video, "download", EmptyDict), "path", EmptyPath))
        engine == IF api THEN "parakeet-api" ELSE "parakeet-tdt-large-v1"
        error == IF IsDir(audio_path)
                 THEN (IF api THEN "IsADirectoryError" ELSE "CalledProcessError")
                 ELSE "RuntimeError"
        called == ~(api /\ IsDir(audio_path))
    IN  IF ~Exists(files, audio_path)
        THEN Unsaved(db0, file, files, TRUE, "FileNotFoundError", FALSE)
        ELSE IF StepStatus(Get(video, "transcription", EmptyDict)) = "completed"
        THEN Saved(SetVideo(db0, i,
                    append_history(video, "transcription", "skipped",
                                   "Transcription already exists", None, now)),
                   now, files, FALSE, None, FALSE, {})
        ELSE IF tool_ok /\ ~IsDir(audio_path)
        THEN LET v1 == mark_step(video, "transcription", "completed",
                                 [srtPath |-> SrtPath(v), engine |-> engine,
                                  notes |-> "Model " \o engine], now)
                 v2 == append_history(v1, "transcription", "completed", None,
                                      "transcribe.yml", now)
             IN  Saved(SetVideo(db0, i, set_actor(v2, actor)), now,
                       Put(files, SrtPath(v), doc), FALSE, None, TRUE, {SrtPath(v)})
        ELSE LET v1 == mark_step(video, "transcription", "failed", [notes |-> error], now)
                 v2 == append_history(v1, "transcription", "failed", error, None, now)
             IN  Saved(SetVideo(db0, i, v2), now, files, TRUE, error, called, {})

\* The loop of split.py's main over the batches, from batch k on: each part's
\* subtitle file is written, then its summary is refined.  resps[k] is the
\* summarization service's answer for batch k.
RECURSIVE SplitLoop(_, _, _, _, _, _, _, _, _)
SplitLoop(v, batches, k, parts, files, has_key, resps, wrote, called) ==
    IF k > Len(batches)
    THEN [raised |-> FALSE, error |-> None, parts |-> parts, files |-> files,
          wrote |-> wrote, called |-> called]
    ELSE LET batch == batches[k]
             path == PartPath(v, k)
             files1 == Put(files, path, "part")
             r == refine_summary(build_summary, has_key, resps[k])
             record == [id |-> PartId(k), label |-> r.value, start |-> batch[1].start,
                        end |-> batch[Len(batch)].end, srtPath |-> path]
         IN  IF r.raised
             THEN [raised |-> TRUE, error |-> r.error, parts |-> parts, files |-> files1,
                   wrote |-> wrote \cup {path}, called |-> TRUE]
             ELSE SplitLoop(v, batches, k + 1, Append(parts, record), files1, has_key, resps,
                            wrote \cup {path}, called \/ r.called)

\* The cues split.py's main parses from srt_path, when it can.
SplitCues(files, srt_path) ==
    IF IsDir(srt_path) THEN [ok |-> FALSE, cues |-> << >>, error |-> "IsADirectoryError"]
    ELSE parse_srt(DocOf(files[srt_path]))

\* split.py main: `srt_arg` is --srt-path (EmptyPath when not given).
split_main(file, files, now, v, srt_arg, max_duration, has_key, resps, actor) ==
    LET db0 == ensure_video(load_db(file, now), v, now)
        i == VideoIndex(db0.videos, v)
        video == db0.videos[i]
        srt_path == OrPath(srt_arg,
                           Get(Get(video, "transcription", EmptyDict), "srtPath", EmptyPath))
    IN  IF ~Exists(files, srt_path)
        THEN Unsaved(db0, file, files, TRUE, "FileNotFoundError", FALSE)
        ELSE
        LET parsed == SplitCues(files, srt_path)
            batches == chunk_cues(parsed.cues, max_duration, DefaultMaxLines)
            files1 == Put(files, CallsPath(v), "calls")
            loop == SplitLoop(v, batches, 1, << >>, files1, has_key, resps,
                              {CallsPath(v)}, FALSE)
            failed(error, fs, ext, wrote) ==
                LET v1 == mark_step(video, "split", "failed", [notes |-> error], now)
                    v2 == append_history(v1, "split", "failed", error, None, now)
                IN  Saved(SetVideo(db0, i, v2), now, fs, TRUE, error, ext, wrote)
        IN  IF ~parsed.ok THEN failed(parsed.error, files, FALSE, {})
            ELSE IF loop.raised THEN failed(loop.error, loop.files, loop.called, loop.wrote)
            ELSE LET n == ToString(Len(loop.parts))
                     v1 == mark_step(video, "split", "completed",
                                     [parts |-> loop.parts, callsPath |-> CallsPath(v),
                                      notes |-> n \o " parts created"], now)
                     v2 == append_history(v1, "split", "completed", n \o " segments",
                                          "split.yml", now)
                 IN  Saved(SetVideo(db0, i, set_actor(v2, actor)), now, loop.files,
                           FALSE, None, loop.called, loop.wrote)

\* The loop of translate.py's main over the recorded parts, from part k on;
\* `calls` counts the translation requests made, the fail_at-th of which fails.
RECURSIVE TranslateLoop(_, _, _, _, _, _, _, _)
TranslateLoop(v, parts, k, calls, files, language, fail_at, wrote) ==
    IF k > Len(parts)
    THEN [raised |-> FALSE, calls |-> calls, files |-> files, wrote |-> wrote]
    ELSE LET part_path == parts[k].srtPath
             segment == SegmentPath(v, part_path, language)
         IN  IF ~Exists(files, part_path)
             THEN TranslateLoop(v, parts, k + 1, calls, files, language, fail_at, wrote)
             ELSE IF calls + 1 = fail_at
             THEN [raised |-> TRUE, calls |-> calls + 1, files |-> files, wrote |-> wrote]
             ELSE TranslateLoop(v, parts, k + 1, calls + 1, Put(files, segment, "translation"),
                                language, fail_at, wrote \cup {segment})

\* Token usage the translation engine reports for one request.
Usage == [prompt_tokens |-> 2, completion_tokens |-> 1]

\* translate.py main: `has_key` is whether OPENROUTER_API_KEY is set; the
\* fail_at-th request to the translation engine fails (0: none does).
translate_main(file, files, now, v, language, mode_arg, has_key, fail_at, actor) ==
    IF ~has_key THEN NotLoaded(file, files, "EnvironmentError", FALSE)
    ELSE
    LET db0 == ensure_video(load_db(file, now), v, now)
        i == VideoIndex(db0.videos, v)
        video == db0.videos[i]
        translations == Get(video, "translations", EmptyDict)
        existing == Get(translations, language, EmptyDict)
        event == "translate-" \o language
        transcript_path == Get(Get(video, "transcription", EmptyDict), "srtPath", EmptyPath)
        split == Get(video, "split", EmptyDict)
        parts == Get(split, "parts", << >>)
        mode == IF mode_arg # "auto" THEN mode_arg
                ELSE IF StepStatus(split) = "completed" /\ parts # << >>
                     THEN "parts" ELSE "full"
        target_path == TargetPath(v, language)
        loop == TranslateLoop(v, parts, 1, 0, files, language, fail_at, {})
        completed(fs, calls, wrote) ==
            LET step == [status |-> "completed", updatedAt |-> now, srtPath |-> target_path,
                         language |-> language,
                         notes |-> "Translated via openrouter/anthropic/claude-3-haiku",
                         tokenUsage |-> [promptTokens |-> calls * Usage.prompt_tokens,
                                         completionTokens |-> calls * Usage.completion_tokens]]
                v1 == [video EXCEPT !.translations = Put(translations, language, step)]
                v2 == append_history(v1, event, "completed", None, "translate.yml", now)
            IN  Saved(SetVideo(db0, i, set_actor(v2, actor)), now, fs, FALSE, None,
                      calls > 0, wrote)
        failed(error, fs, ext, wrote) ==
            LET step == [status |-> "failed", language |-> language, updatedAt |-> now,
                         notes |-> error]
                v1 == [video EXCEPT !.translations = Put(translations, language, step)]
                v2 == append_history(v1, event, "failed", error, None, now)
            IN  Saved(SetVideo(db0, i, v2), now, fs, TRUE, error, ext, wrote)
    IN  IF StepStatus(existing) = "completed"
        THEN Saved(SetVideo(db0, i,
                    append_history(video, event, "skipped", "Translation already exists",
                                   None, now)),
                   now, files, FALSE, None, FALSE, {})
        ELSE IF ~Exists(files, transcript_path)
        THEN Unsaved(db0, file, files, TRUE, "FileNotFoundError", FALSE)
        ELSE IF mode = "full"
        THEN IF IsDir(transcript_path) THEN failed("IsADirectoryError", files, FALSE, {})
             ELSE IF fail_at = 1 THEN failed("HTTPError", files, TRUE, {})
             ELSE completed(Put(files, target_path, "translation"), 1, {target_path})
        ELSE IF loop.raised THEN failed("HTTPError", loop.files, TRUE, loop.wrote)
        ELSE IF loop.calls > 0
        THEN completed(Put(loop.files, target_path, "translation"), loop.calls,
                       loop.wrote \cup {target_path})
        ELSE completed(loop.files, 0, loop.wrote)

\* reset_step.py main
reset_main(file, files, now, v, step_key, actor) ==
    LET db0 == ensure_video(load_db(file, now), v, now)
        i == VideoIndex(db0.videos, v)
        video == db0.videos[i]
    IN  Saved(SetVideo(db0, i, set_actor(reset_step(video, step_key, now), actor)),
              now, files, FALSE, None, FALSE, {})

\* delete.py main that forgets to reset the split step.
delete_main_keeps_split(file, files, now, v, actor) ==
    LET db == load_db(file, now)
        i == VideoIndex(db.videos, v)
        video == db.videos[i]
        v1 == [download |-> [status |-> "pending"],
               transcription |-> [status |-> "pending"],
               translations |-> EmptyDict,
               metrics |-> [storageBytes |-> 0,
                            runtimeSeconds |-> Get(video, "durationSeconds", 0),
                            parts |-> 0]] @@ video
        v2 == append_history(v1, "delete", "completed", "Assets removed", "delete.yml", now)
    IN  IF i = 0 THEN Unsaved(db, file, files, FALSE, None, FALSE)
        ELSE Saved(SetVideo(db, i, set_actor(v2, actor)), now,
                   RmTree(files, DATA_DIR \o <<v>>), FALSE, None, FALSE, {})

\* delete.py main that removes the record from the ledger.
delete_main_removes(file, files, now, v, actor) ==
    LET db == load_db(file, now)
        i == VideoIndex(db.videos, v)
    IN  IF i = 0 THEN Unsaved(db, file, files, FALSE, None, FALSE)
        ELSE Saved([db EXCEPT !.videos = SubSeq(@, 1, i - 1) \o SubSeq(@, i + 1, Len(@))],
                   now, RmTree(files, DATA_DIR \o <<v>>), FALSE, None, FALSE, {})

\* delete.py main
delete_main(file, files, now, v, actor) ==
    LET db == load_db(file, now)
        i == VideoIndex(db.videos, v)
        video == db.videos[i]
        v1 == [download |-> [status |-> "pending"],
               transcription |-> [status |-> "pending"],
               split |-> [status |-> "pending", parts |-> << >>],
               translations |-> EmptyDict,
               metrics |-> [storageBytes |-> 0,
                            runtimeSeconds |-> Get(video, "durationSeconds", 0),
                            parts |-> 0]] @@ video
        v2 == append_history(v1, "delete", "completed", "Assets removed", "delete.yml", now)
    IN  IF i = 0 THEN Unsaved(db, file, files, FALSE, None, FALSE)
        ELSE Saved(SetVideo(db, i, set_actor(v2, actor)), now,
                   RmTree(files, DATA_DIR \o <<v>>), FALSE, None, FALSE, {})

\* ------------------------------------------------------------ the ledger

VARIABLES
    disk,   \* db/index.json: NoFile, or the ledger last written
    fs,     \* the artifact files: path -> content
    now,    \* the clock (utcnow), one tick per invocation
    run,    \* what the last invocation was and did
    input,  \* the arguments of a function checked on its own
    output, \* its result, once it was applied
    procs   \* operator processes running side by side: where each is

vars == <<disk, fs, now, run, input, output, procs>>

NoInput == [fn |-> "none"]
NoOutput == [done |-> FALSE]

VideoIds == {"v1"}
Actors == {None, "alice"}
Languages == {"ar", "tr"}
\* --max-duration values given to split.py (its default, and a shorter one)
MaxDurations == {420, 400}

\* The operator processes that may run side by side; none has started.
Procs == {"p1", "p2"}
NoProcs == [p \in Procs |-> [pc |-> "start"]]

NoRun ==
    [op |-> "none", vid |-> None, arg |-> None, force |-> FALSE, mem |-> NoFile,
     loaded |-> FALSE, saves |-> 0, raised |-> FALSE, error |-> None, ext |-> FALSE,
     wrote |-> {}]

Init ==
    /\ disk = NoFile
    /\ fs = (UserAudio :> "audio") @@ (UserSrt :> "talk")
    /\ now = 0
    /\ run = NoRun
    /\ input = NoInput
    /\ output = NoOutput
    /\ procs = NoProcs

\* The invocation `op` on video v ended as `r`.
Ends(op, v, arg, force, r) ==
    /\ disk' = r.file
    /\ fs' = r.files
    /\ now' = now + 1
    /\ run' = [op |-> op, vid |-> v, arg |-> arg, force |-> force, mem |-> r.mem,
               loaded |-> r.loaded, saves |-> r.saves, raised |-> r.raised,
               error |-> r.error, ext |-> r.ext, wrote |-> r.wrote]
    /\ UNCHANGED <<input, output, procs>>

Download(v) ==
    /\ now < MaxOps
    /\ \E force \in BOOLEAN, actor \in Actors, meta_ok \in BOOLEAN, tool_ok \in BOOLEAN :
         Ends("download", v, None, force,
              download_main(disk, fs, now + 1, v, force, actor, meta_ok, tool_ok))

Transcribe(v) ==
    /\ now < MaxOps
    /\ \E audio_arg \in {EmptyPath, UserAudio, MissingPath}, api \in BOOLEAN,
          tool_ok \in BOOLEAN, doc \in Transcripts, actor \in Actors :
         Ends("transcribe", v, None, FALSE,
              transcribe_main(disk, fs, now + 1, v, audio_arg, api, tool_ok, doc, actor))

\* The number of batches split.py's main would refine, which is how many
\* answers of the summarization service the invocation consumes.
SplitBatches(v, srt_arg, max_duration) ==
    LET db0 == ensure_video(load_db(disk, now + 1), v, now + 1)
        video == db0.videos[VideoIndex(db0.videos, v)]
        srt_path == OrPath(srt_arg, Get(video.transcription, "srtPath", EmptyPath))
    IN  IF Exists(fs, srt_path)
        THEN Len(chunk_cues(SplitCues(fs, srt_path).cues, max_duration, DefaultMaxLines))
        ELSE 0

Split(v) ==
    /\ now < MaxOps
    /\ \E srt_arg \in {EmptyPath, UserSrt, MissingPath}, max_duration \in MaxDurations,
          has_key \in BOOLEAN, actor \in Actors :
         \E resps \in [1..SplitBatches(v, srt_arg, max_duration) ->
                        IF has_key THEN Responses ELSE {"message"}] :
            Ends("split", v, None, FALSE,
                 split_main(disk, fs, now + 1, v, srt_arg, max_duration, has_key, resps, actor))

\* At most this many requests reach the translation engine in one invocation.
TranslateCalls(v) ==
    LET db0 == ensure_video(load_db(disk, now + 1), v, now + 1)
        video == db0.videos[VideoIndex(db0.videos, v)]
    IN  IF Len(Get(video.split, "parts", << >>)) > 1
        THEN Len(Get(video.split, "parts", << >>)) ELSE 1

Translate(v) ==
    /\ now < MaxOps
    /\ \E language \in Languages, mode \in {"auto", "full", "parts"}, has_key \in BOOLEAN,
          fail_at \in 0..TranslateCalls(v), actor \in Actors :
         Ends("translate", v, language, FALSE,
              translate_main(disk, fs, now + 1, v, language, mode, has_key, fail_at, actor))

ResetStep(v) ==
    /\ now < MaxOps
    /\ \E step_key \in StepKeys \cup {"bogus"}, actor \in Actors :
         Ends("reset_step", v, step_key, FALSE,
              reset_main(disk, fs, now + 1, v, step_key, actor))

Delete(v) ==
    /\ now < MaxOps
    /\ \E actor \in Actors :
         Ends("delete", v, None, FALSE, delete_main(disk, fs, now + 1, v, actor))

\* An artifact under data/ disappears between two invocations (the scripts
\* keep only its path in the ledger and test Path.exists() when they need it).
LoseFile ==
    /\ now < MaxOps
    /\ \E p \in DOMAIN fs :
         /\ IsPrefix(DATA_DIR, p)
         /\ fs' = Pop(fs, p)
         /\ now' = now + 1
         /\ run' = [NoRun EXCEPT !.op = "lose_file"]
         /\ UNCHANGED <<disk, input, output, procs>>

Next ==
    \/ \E v \in VideoIds : Download(v)
    \/ \E v \in VideoIds : Transcribe(v)
    \/ \E v \in VideoIds : Split(v)
    \/ \E v \in VideoIds : Translate(v)
    \/ \E v \in VideoIds : ResetStep(v)
    \/ \E v \in VideoIds : Delete(v)
    \/ LoseFile

Spec == Init /\ [][Next]_vars

\* ------------------------------------------------- chunk_cues on its own

\* The ledger is not involved when a function is applied on its own.
Idle ==
    /\ disk = NoFile
    /\ fs = EmptyDict
    /\ now = 0
    /\ run = NoRun
    /\ procs = NoProcs

Texts == {<<"a">>, <<"a", ".">>, <<"a", "?">>, <<"a", "!">>}
CueTimes == {t \in (0..MaxTime) \X (0..MaxTime) : t[1] <= t[2]}

\* The cue sequence of times and texts f, each cue numbered by its position.
CuesOf(f) ==
    [i \in DOMAIN f |-> [index |-> i, start |-> f[i][1][1], end |-> f[i][1][2],
                         text |-> f[i][2]]]

InitChunk ==
    /\ Idle
    /\ output = NoOutput
    /\ \E n \in 0..MaxCues, d \in 1..(MaxTime + 1), l \in 1..MaxCues :
         \E f \in [1..n -> CueTimes \X Texts] :
            input = [fn |-> "chunk_cues", cues |-> CuesOf(f),
                     max_duration |-> d, max_lines |-> l]

CallChunk ==
    /\ input.fn = "chunk_cues"
    /\ ~output.done
    /\ output' = [done |-> TRUE,
                  value |-> chunk_cues(input.cues, input.max_duration, input.max_lines)]
    /\ UNCHANGED <<disk, fs, now, run, input, procs>>

NextChunk == CallChunk

SpecChunk == InitChunk /\ [][NextChunk]_vars

\* The record a WorkflowContext holds: the one in the ledger file, or the one
\* ensure_video creates for the id.
Loaded(file, v, at) ==
    LET db == ensure_video(load_db(file, at), v, at)
    IN  db.videos[VideoIndex(db.videos, v)]

\* ------------------------------------- operator processes side by side

\* Nothing serializes the scripts: a process loads the ledger when its
\* WorkflowContext is built and writes its own copy back in ctx.save(),
\* whatever happened to the file in between.

\* Process p starts reset_step.py: it loads the ledger file and resets the
\* step in its own copy.
RaceLoad(p) ==
    /\ procs[p].pc = "start"
    /\ \E v \in VideoIds, step_key \in StepKeys \cup {"bogus"}, actor \in Actors :
         procs' = [procs EXCEPT ![p] =
                     [pc |-> "loaded", vid |-> v, loadedAt |-> now + 1,
                      mem |-> reset_main(disk, fs, now + 1, v, step_key, actor).mem]]
    /\ now' = now + 1
    /\ UNCHANGED <<disk, fs, run, input, output>>

\* RaceSave that reads the file again and appends its own entry to the
\* history found there.
RaceSaveMerging(p) ==
    /\ procs[p].pc = "loaded"
    /\ LET mine == procs[p].mem
           i == VideoIndex(mine.videos, procs[p].vid)
           theirs == Loaded(disk, procs[p].vid, now + 1)
           own == mine.videos[i].history
           merged == [mine EXCEPT !.videos[i].history =
                                     Append(theirs.history, own[Len(own)])]
       IN  /\ disk' = save_db(merged, now + 1)
           /\ procs' = [procs EXCEPT ![p] =
                           [pc |-> "saved", vid |-> procs[p].vid, mem |-> procs[p].mem,
                            loadedAt |-> procs[p].loadedAt, savedAt |-> now + 1,
                            wrote |-> save_db(merged, now + 1)]]
    /\ now' = now + 1
    /\ UNCHANGED <<fs, run, input, output>>

\* Process p reaches ctx.save(): its copy replaces the ledger file.
RaceSave(p) ==
    /\ procs[p].pc = "loaded"
    /\ disk' = save_db(procs[p].mem, now + 1)
    /\ procs' = [procs EXCEPT ![p] =
                    [pc |-> "saved", vid |-> procs[p].vid, mem |-> procs[p].mem,
                     loadedAt |-> procs[p].loadedAt, savedAt |-> now + 1,
                     wrote |-> save_db(procs[p].mem, now + 1)]]
    /\ now' = now + 1
    /\ UNCHANGED <<fs, run, input, output>>

\* Before the processes start, download.py may have run on its own.
RaceSetup ==
    /\ \A p \in Procs : procs[p].pc = "start"
    /\ \E v \in VideoIds : Download(v)

NextRace ==
    \/ RaceSetup
    \/ \E p \in Procs : RaceLoad(p)
    \/ \E p \in Procs : RaceSave(p)

SpecRace == Init /\ [][NextRace]_vars

\* ------------------------------------------- several videos in a ledger

\* The scripts that create or clear records, invoked for either of two ids.
TwoVideoIds == {"v1", "v2"}

NextVideos ==
    \/ \E v \in TwoVideoIds : Download(v)
    \/ \E v \in TwoVideoIds : Transcribe(v)
    \/ \E v \in TwoVideoIds : ResetStep(v)
    \/ \E v \in TwoVideoIds : Delete(v)

SpecVideos == Init /\ [][NextVideos]_vars

\* ------------------------------------------------ parse_srt on its own

\* Blocks of one to four lines, the first an integer or not, the second (when
\* there is one) a well-formed timing line or not.
BlockShapes ==
    {b \in {Block(lines, index, timing, 0, 1, <<"a">>) :
                lines \in 1..4, index \in {-1, 5}, timing \in BOOLEAN} :
        b.lines >= 2 \/ ~b.timing}

InitParse ==
    /\ Idle
    /\ output = NoOutput
    /\ \E n \in 0..MaxBlocks :
         \E blocks \in [1..n -> BlockShapes] :
            input = [fn |-> "parse_srt", blocks |-> blocks]

CallParse ==
    /\ input.fn = "parse_srt"
    /\ ~output.done
    /\ output' = [done |-> TRUE, value |-> parse_srt(input.blocks)]
    /\ UNCHANGED <<disk, fs, now, run, input, procs>>

NextParse == CallParse

SpecParse == InitParse /\ [][NextParse]_vars

\* --------------------------------------- the timestamp round trip

\* Whole seconds around which the timestamps are taken: the start, and the
\* turns of a minute, an hour and a hundred hours.
SecondMarks == {0, 59, 60, 3599, 3600, 359999}

InitStamp ==
    /\ Idle
    /\ output = NoOutput
    /\ \E s \in SecondMarks, f \in 0..(TicksPerSecond - 1), up \in BOOLEAN :
         input = [fn |-> "format_timestamp", t |-> s * TicksPerSecond + f, up |-> up]

CallStamp ==
    /\ input.fn = "format_timestamp"
    /\ ~output.done
    /\ output' = [done |-> TRUE, text |-> format_timestamp(input.t, input.up),
                  value |-> parse_timestamp(format_timestamp(input.t, input.up))]
    /\ UNCHANGED <<disk, fs, now, run, input, procs>>

NextStamp == CallStamp

SpecStamp == InitStamp /\ [][NextStamp]_vars

\* ------------------------------------------ compute_analytics on its own

Capabilities == {"download", "transcription", "split", "ar", "tr"}

\* The StepRecords the operators write, as far as compute_analytics reads them.
StepShapes ==
    {[status |-> "pending"]}
    \cup {[status |-> st, updatedAt |-> at] : st \in {"completed", "failed"}, at \in 1..MaxStamp}

\* A VideoRecord whose StepRecord for capability `cap` is `step` and whose
\* other StepRecords are `other` (a pending translation is an absent one).
VideoWith(n, cap, step, other, metrics) ==
    LET of(c) == IF c = cap THEN step ELSE other
        tr == [l \in {c \in {"ar", "tr"} : of(c).status # "pending"} |-> of(l)]
        base == [id |-> "v" \o ToString(n), title |-> "title", createdAt |-> 1, updatedAt |-> 1,
                 download |-> of("download"), transcription |-> of("transcription"),
                 split |-> of("split") @@ [parts |-> << >>],
                 translations |-> tr, history |-> << >>]
    IN  IF metrics THEN [metrics |-> [runtimeSeconds |-> n, storageBytes |-> 2 * n]] @@ base
        ELSE base

InitAnalytics ==
    /\ Idle
    /\ output = NoOutput
    /\ \E cap \in Capabilities, n \in 0..MaxVideos, other \in StepShapes, metrics \in BOOLEAN :
         \E steps \in [1..n -> StepShapes] :
            input = [fn |-> "compute_analytics", cap |-> cap,
                     videos |-> [i \in 1..n |-> VideoWith(i, cap, steps[i], other, metrics)]]

CallAnalytics ==
    /\ input.fn = "compute_analytics"
    /\ ~output.done
    /\ output' = [done |-> TRUE, value |-> compute_analytics(input.videos)]
    /\ UNCHANGED <<disk, fs, now, run, input, procs>>

NextAnalytics == CallAnalytics

SpecAnalytics == InitAnalytics /\ [][NextAnalytics]_vars


\* ================================================================ claims

\* The record of video v in the ledger file, the StepRecord an operator
\* script is about, and the history event it logs.
OnDisk(file, v) == file # NoFile /\ VideoIndex(file.videos, v) # 0
VideoOf(file, v) == file.videos[VideoIndex(file.videos, v)]
StepOf(video, op, arg) ==
    CASE op = "download" -> video.download
      [] op = "transcribe" -> video.transcription
      [] op = "split" -> video.split
      [] op = "translate" -> Get(video.translations, arg, EmptyDict)
      [] OTHER -> EmptyDict
EventOf(op, arg) ==
    CASE op = "download" -> "download"
      [] op = "transcribe" -> "transcription"
      [] op = "split" -> "split"
      [] op = "translate" -> "translate-" \o arg
      [] OTHER -> op
Last(seq) == seq[Len(seq)]
CapabilityOps == {"download", "transcribe", "split", "translate"}

\* Whether the ledger file records, for video v, that the capability of
\* `op` failed with `error`: the StepRecord and the last history entry.
FailureOnDisk(file, v, op, arg, error) ==
    /\ OnDisk(file, v)
    /\ LET video == VideoOf(file, v)
           step == StepOf(video, op, arg)
       IN  /\ StepStatus(step) = "failed"
           /\ Get(step, "notes", None) = error
           /\ video.history # << >>
           /\ Last(video.history).event = EventOf(op, arg)
           /\ Last(video.history).status = "failed"
           /\ Last(video.history).notes = error

\* C1: whenever a capability operator fails after it loaded the ledger (a
\* missing input artifact included), the ledger file afterwards holds the
\* StepRecord as failed with the failure as notes and a failed history entry,
\* it was saved by this invocation, and the failure reached the caller.
C1_FailureIsRecorded ==
    (run.op \in CapabilityOps /\ run.loaded /\ run.raised)
        => (run.saves >= 1 /\ FailureOnDisk(disk, run.vid, run.op, run.arg, run.error))

\* C2: every invocation that loaded the ledger saved it exactly once.
C2_ExactlyOneSave ==
    run.loaded => run.saves = 1

\* The fields mark_step is passed by download, transcribe and split.
MarkFields(op, raised) ==
    IF raised THEN {"notes"}
    ELSE CASE op = "download" -> {"path", "sizeBytes", "notes"}
           [] op = "transcribe" -> {"srtPath", "engine", "notes"}
           [] OTHER -> {"parts", "callsPath", "notes"}

\* Whether the invocation that just ended went through mark_step: it saved
\* and logged something other than a skip.
Marked ==
    /\ run.op \in {"download", "transcribe", "split"}
    /\ run.saves = 1
    /\ OnDisk(disk, run.vid)
    /\ Last(VideoOf(disk, run.vid).history).status # "skipped"

\* C3: after mark_step the StepRecord holds exactly status, updatedAt and the
\* fields passed in that call, whatever it held before.
C3_MarkStepReplaces ==
    Marked =>
        DOMAIN StepOf(VideoOf(disk, run.vid), run.op, run.arg)
            = {"status", "updatedAt"} \cup MarkFields(run.op, run.raised)

\* The StepRecord of the capability of the invocation ending in this step was
\* already completed in the ledger file it loaded.
WasCompleted ==
    /\ OnDisk(disk, run'.vid)
    /\ StepStatus(StepOf(VideoOf(disk, run'.vid), run'.op, run'.arg)) = "completed"

\* This step's invocation left the StepRecord as it was and logged one skip.
SkippedInStep ==
    /\ run'.saves = 1
    /\ OnDisk(disk', run'.vid)
    /\ LET before == VideoOf(disk, run'.vid)
           after == VideoOf(disk', run'.vid)
       IN  /\ StepOf(after, run'.op, run'.arg) = StepOf(before, run'.op, run'.arg)
           /\ Len(after.history) = Len(before.history) + 1
           /\ SubSeq(after.history, 1, Len(before.history)) = before.history
           /\ Last(after.history).event = EventOf(run'.op, run'.arg)
           /\ Last(after.history).status = "skipped"

\* C4: download, transcribe and translate, invoked without a force flag on a
\* StepRecord that is already completed, do not call the collaborator, leave
\* the StepRecord unchanged, log exactly one skipped entry and save, whether
\* or not the input artifact still exists.
C4_CompletedIsSkipped ==
    [][(run'.op \in {"download", "transcribe", "translate"} /\ run'.loaded
            /\ ~run'.force /\ WasCompleted)
        => (~run'.ext /\ SkippedInStep)]_vars

\* C5: split invoked on a completed split StepRecord writes no part, leaves
\* the StepRecord unchanged, logs a skipped entry and leaves the analytics
\* split total as it was.
C5_CompletedSplitIsSkipped ==
    [][(run'.op = "split" /\ run'.loaded /\ WasCompleted)
        => /\ run'.wrote = {}
           /\ SkippedInStep
           /\ disk'.analytics.totals.split = disk.analytics.totals.split]_vars


\* The batches of a chunk_cues result laid end to end.
RECURSIVE Flatten(_)
Flatten(batches) ==
    IF batches = << >> THEN << >> ELSE Head(batches) \o Flatten(Tail(batches))

\* C6: the batches chunk_cues returns, concatenated in order, are the input
\* cue sequence; no batch is empty; empty input gives no batch.
C6_BatchesPartitionCues ==
    output.done =>
        /\ Flatten(output.value) = input.cues
        /\ \A b \in 1..Len(output.value) : output.value[b] # << >>
        /\ (input.cues = << >> => output.value = << >>)

\* chunk_cues returned more than one batch, the last one by the trailing flush.
C6_SeveralBatches ==
    /\ output.done
    /\ Len(output.value) = 2
    /\ ~ClosesBatch(Last(input.cues), output.value[2], output.value[1][1].end,
                    input.max_duration, input.max_lines)

\* Cues in time order: each ends no earlier than it starts and no later than
\* the next one starts.
TimeOrdered(cues) ==
    /\ \A i \in 1..Len(cues) : cues[i].start <= cues[i].end
    /\ \A i \in 1..(Len(cues) - 1) : cues[i].end <= cues[i + 1].start
Span(batch) == Last(batch).end - batch[1].start

\* C7 as stated: on time-ordered cues every batch spans at most max_duration
\* unless one of its cues alone spans more than max_duration.
C7_SpanWithinMax ==
    (output.done /\ TimeOrdered(input.cues)) =>
        \A b \in 1..Len(output.value) :
            LET batch == output.value[b]
            IN  \/ Span(batch) <= input.max_duration
                \/ \E i \in 1..Len(batch) :
                      batch[i].end - batch[i].start > input.max_duration

\* C7 as amended: on time-ordered cues every batch without its last cue spans
\* less than max_duration; only the last cue of a batch can take its span to
\* max_duration or beyond.
C7_SpanBeforeLastCueBelowMax ==
    (output.done /\ TimeOrdered(input.cues)) =>
        \A b \in 1..Len(output.value) :
            LET batch == output.value[b]
            IN  \A k \in 1..(Len(batch) - 1) :
                   Span(SubSeq(batch, 1, k)) < input.max_duration

\* A batch of several cues that spans more than max_duration although none
\* of its cues does on its own.
C7_LastCueOvershoots ==
    /\ output.done
    /\ TimeOrdered(input.cues)
    /\ \E b \in 1..Len(output.value) :
         LET batch == output.value[b]
         IN  /\ Len(batch) >= 2
             /\ Span(batch) > input.max_duration
             /\ \A i \in 1..Len(batch) :
                   batch[i].end - batch[i].start <= input.max_duration


\* C8: from one state of the ledger file to the next, every video keeps its
\* place and every history entry it had stays at its position with all its
\* fields, the actor included: the history only grows at its end.
C8_HistoryOnlyGrows ==
    [][disk # NoFile =>
        /\ disk' # NoFile
        /\ Len(disk'.videos) >= Len(disk.videos)
        /\ \A i \in 1..Len(disk.videos) :
             /\ disk'.videos[i].id = disk.videos[i].id
             /\ Len(disk'.videos[i].history) >= Len(disk.videos[i].history)
             /\ SubSeq(disk'.videos[i].history, 1, Len(disk.videos[i].history))
                    = disk.videos[i].history]_vars

\* A history whose first entry differs from the second in having an actor,
\* after a later invocation appended the second and saved.
C8_EntryKeptAcrossSaves ==
    /\ disk # NoFile
    /\ \E i \in 1..Len(disk.videos) :
         LET history == disk.videos[i].history
         IN  /\ Len(history) = 2
             /\ "actor" \in DOMAIN history[2]
             /\ "actor" \notin DOMAIN history[1]
             /\ history[1].timestamp < history[2].timestamp

\* C9: every ledger file written holds the analytics compute_analytics gives
\* for its own videos; up to its save an invocation leaves the analytics it
\* loaded untouched, and an invocation that does not save leaves the file.
C9_AnalyticsRecomputedOnSave ==
    [][/\ disk' # NoFile => disk'.analytics = compute_analytics(disk'.videos)
       /\ run'.loaded => run'.mem.analytics = load_db(disk, now').analytics
       /\ run'.saves = 0 => disk' = disk]_vars

\* A save that replaced analytics which the invocation's changes had made
\* stale: a completed step is counted in the file, not in memory before it.
C9_SaveRefreshedAnalytics ==
    /\ disk # NoFile
    /\ run.saves = 1
    /\ ~run.raised
    /\ run.op \in CapabilityOps
    /\ run.mem.analytics # disk.analytics
    /\ disk.analytics.totals.videos = 1
    /\ disk.analytics.jobs[IF run.op = "translate" THEN "translate-" \o run.arg
                           ELSE run.op].success = 1

\* The StepRecord compute_analytics reads for a tracked capability, and the
\* job it tallies it under.
TrackedStep(video, cap) ==
    CASE cap = "download" -> Get(video, "download", EmptyDict)
      [] cap = "transcription" -> Get(video, "transcription", EmptyDict)
      [] cap = "split" -> Get(video, "split", EmptyDict)
      [] OTHER -> Get(Get(video, "translations", EmptyDict), cap, EmptyDict)
JobOf(cap) ==
    CASE cap = "download" -> "download"
      [] cap = "transcription" -> "transcribe"
      [] cap = "split" -> "split"
      [] OTHER -> "translate-" \o cap
WithStatus(videos, cap, statuses) ==
    {i \in 1..Len(videos) : StepStatus(TrackedStep(videos[i], cap)) \in statuses}
LatestRun(videos, cap) ==
    LET ran == WithStatus(videos, cap, {"completed", "failed"})
        at(i) == Get(TrackedStep(videos[i], cap), "updatedAt", NoTime)
    IN  IF ran = {} THEN NoTime
        ELSE at(CHOOSE i \in ran : \A j \in ran : at(j) <= at(i))

\* C10: for each tracked capability compute_analytics counts the completed
\* StepRecords as success, the failed ones as failed, and reports as
\* lastRunAt the latest updatedAt among the completed or failed ones.
C10_JobStatsTallySteps ==
    output.done =>
        \A cap \in Capabilities :
            LET job == output.value.jobs[JobOf(cap)]
            IN  /\ job.success = Cardinality(WithStatus(input.videos, cap, {"completed"}))
                /\ job.failed = Cardinality(WithStatus(input.videos, cap, {"failed"}))
                /\ job.lastRunAt = LatestRun(input.videos, cap)


\* The rearrangements of a sequence, and the part of an analytics result
\* that is counts: the totals and each job's tallies.
Rearrangements(seq) ==
    {[i \in 1..Len(seq) |-> seq[p[i]]] :
        p \in {q \in [1..Len(seq) -> 1..Len(seq)] :
                  \A i, j \in 1..Len(seq) : q[i] = q[j] => i = j}}
JobCounts(job) ==
    [success |-> job.success, failed |-> job.failed,
     running |-> job.running, queued |-> job.queued]
Counts(analytics) ==
    [totals |-> analytics.totals,
     jobs |-> [k \in DOMAIN analytics.jobs |-> JobCounts(analytics.jobs[k])]]

\* C11: compute_analytics gives the same totals and the same job counts for
\* every rearrangement of the video collection.
C11_CountsIgnoreOrder ==
    output.done =>
        \A videos \in Rearrangements(input.videos) :
            Counts(compute_analytics(videos)) = Counts(output.value)

\* A collection with a rearrangement that changes the result of
\* compute_analytics as a whole (its lastRunAt), where steps were counted.
C11_OrderShowsInResult ==
    /\ output.done
    /\ output.value.totals.downloaded >= 2
    /\ \E videos \in Rearrangements(input.videos) :
          compute_analytics(videos) # output.value


\* C12: no two records of the ledger file share an id, and ensure_video on
\* the ledger as loaded leaves it alone when the id has a record and
\* otherwise appends one record for the id, its download, transcription and
\* split pending and its translations empty.
C12_IdsUniqueEnsureVideo ==
    LET db == load_db(disk, now + 1)
    IN  /\ \A i, j \in 1..Len(db.videos) : db.videos[i].id = db.videos[j].id => i = j
        /\ \A id \in TwoVideoIds \cup {"v3"} :
             LET after == ensure_video(db, id, now + 1)
                 video == after.videos[VideoIndex(after.videos, id)]
             IN  /\ VideoIndex(after.videos, id) # 0
                 /\ video.id = id
                 /\ IF \E i \in 1..Len(db.videos) : db.videos[i].id = id
                    THEN after = db
                    ELSE /\ after.videos = Append(db.videos, video)
                         /\ video.download = [status |-> "pending"]
                         /\ video.transcription = [status |-> "pending"]
                         /\ StepStatus(video.split) = "pending"
                         /\ video.translations = EmptyDict
                         /\ video.history = << >>

\* A ledger file with two records, the second created by a later invocation
\* that found the first one under another id.
C12_TwoRecords ==
    /\ disk # NoFile
    /\ Len(disk.videos) = 2
    /\ disk.videos[1].createdAt < disk.videos[2].createdAt


\* The steps of a record other than the one named by step_key.
OtherSteps(video, step_key) ==
    [download |-> IF step_key = "download" THEN None ELSE video.download,
     transcription |-> IF step_key = "transcription" THEN None ELSE video.transcription,
     split |-> IF step_key = "split" THEN None ELSE video.split,
     ar |-> IF step_key = "translations.ar" THEN None
            ELSE Get(video.translations, "ar", None),
     tr |-> IF step_key = "translations.tr" THEN None
            ELSE Get(video.translations, "tr", None),
     languages |-> DOMAIN video.translations \ {"ar", "tr"}]

\* One entry reset:<key> with status pending was appended to the history.
ResetLogged(before, after, step_key) ==
    /\ Len(after.history) = Len(before.history) + 1
    /\ SubSeq(after.history, 1, Len(before.history)) = before.history
    /\ Last(after.history).event = "reset:" \o step_key
    /\ Last(after.history).status = "pending"

\* C13: reset_step.py with a recognized step key leaves that step in its
\* initial shape whatever it held, leaves the other steps as they were and
\* appends one reset:<key> entry with status pending.
C13_ResetRestoresInitialShape ==
    [][(run'.op = "reset_step" /\ run'.arg \in StepKeys) =>
        LET before == Loaded(disk, run'.vid, now')
            after == VideoOf(disk', run'.vid)
            key == run'.arg
        IN  /\ OnDisk(disk', run'.vid)
            /\ key = "download" => after.download = [status |-> "pending"]
            /\ key = "transcription" => after.transcription = [status |-> "pending"]
            /\ key = "split" => after.split = [status |-> "pending", parts |-> << >>]
            /\ key = "translations.ar" => "ar" \notin DOMAIN after.translations
            /\ key = "translations.tr" => "tr" \notin DOMAIN after.translations
            /\ OtherSteps(after, key) = OtherSteps(before, key)
            /\ ResetLogged(before, after, key)]_vars

\* A reset of a step that an earlier invocation had completed or failed with
\* further fields.
C13_ResetAfterRun ==
    /\ run.op = "reset_step"
    /\ run.arg \in {"download", "transcription"}
    /\ OnDisk(disk, run.vid)
    /\ LET video == VideoOf(disk, run.vid)
       IN  /\ Len(video.history) = 2
           /\ video.history[1].status \in {"completed", "failed"}
           /\ video.history[1].event = run.arg
           /\ StepOf(video, IF run.arg = "download" THEN "download" ELSE "transcribe", None)
                 = [status |-> "pending"]

\* C14: reset_step.py with an unrecognized step key leaves every step and
\* the translations of the video as they were and still appends one
\* reset:<key> entry with status pending.
C14_UnknownKeyOnlyLogs ==
    [][(run'.op = "reset_step" /\ run'.arg \notin StepKeys) =>
        LET before == Loaded(disk, run'.vid, now')
            after == VideoOf(disk', run'.vid)
        IN  /\ OnDisk(disk', run'.vid)
            /\ after.download = before.download
            /\ after.transcription = before.transcription
            /\ after.split = before.split
            /\ after.translations = before.translations
            /\ ResetLogged(before, after, run'.arg)]_vars

\* A reset with an unknown key on a video whose download had completed.
C14_UnknownKeyAfterDownload ==
    /\ run.op = "reset_step"
    /\ run.arg \notin StepKeys
    /\ OnDisk(disk, run.vid)
    /\ StepStatus(VideoOf(disk, run.vid).download) = "completed"
    /\ Last(VideoOf(disk, run.vid).history).event = "reset:" \o run.arg


\* Fields a caller may pass to mark_step, and a StepRecord with the value of
\* its timestamp left out of the comparison.
SomeFields ==
    {EmptyDict, [notes |-> "n"], [path |-> "p", sizeBytes |-> 1, notes |-> "n"],
     [parts |-> <<"part-1">>, callsPath |-> "c"]}
SameButTime(step) == [step EXCEPT !.updatedAt = NoTime]
MarkedDirectly(video, name, fields) ==
    SameButTime(mark_step(video, name, "completed", fields, now + 1)[name])
MarkedAfterReset(video, name, fields) ==
    SameButTime(mark_step(reset_step(video, name, now + 1), name, "completed",
                          fields, now + 2)[name])

\* C15: for download, transcription and split of any record of the ledger
\* file, reset_step followed by mark_step(completed, fields) gives the
\* StepRecord that mark_step(completed, fields) gives on a newly created
\* video, the timestamp value aside.
C15_ResetThenMarkLeavesNoResidue ==
    disk # NoFile =>
        \A i \in 1..Len(disk.videos), name \in {"download", "transcription", "split"},
           fields \in SomeFields :
            MarkedAfterReset(disk.videos[i], name, fields)
                = MarkedDirectly(NewVideo(disk.videos[i].id, now + 1), name, fields)

\* A record whose step holds fields that mark_step alone would carry over:
\* without the reset the result differs from that on a new video.
C15_StepHasResidue ==
    /\ disk # NoFile
    /\ \E i \in 1..Len(disk.videos), name \in {"download", "transcription", "split"},
          fields \in SomeFields :
          /\ StepStatus(disk.videos[i][name]) \in {"completed", "failed"}
          /\ MarkedDirectly(disk.videos[i], name, fields)
                # MarkedDirectly(NewVideo(disk.videos[i].id, now + 1), name, fields)


\* The exceptions that leave refine_summary.
RefinerErrors == {"RequestException", "JSONDecodeError", "TypeError"}

\* C16: split.py never fails because of the summarization refiner, and when
\* the refiner was not reached every part carries the heuristic summary.
C16_RefinerNeverFailsSplit ==
    run.op = "split" =>
        /\ run.error \notin RefinerErrors
        /\ (run.saves = 1 /\ ~run.raised /\ ~run.ext) =>
              \A k \in 1..Len(VideoOf(disk, run.vid).split.parts) :
                  VideoOf(disk, run.vid).split.parts[k].label = build_summary

\* C17: parse_srt fails when a block has fewer than two lines after its
\* index line, and otherwise keeps every block, numbering one whose index
\* line is not an integer by its position among the cues.
C17_ShortBlockIsRejected ==
    output.done =>
        LET blocks == input.blocks
            result == output.value
            short == \E i \in 1..Len(blocks) : blocks[i].lines < 3
        IN  /\ short => ~result.ok
            /\ (~short /\ result.ok) =>
                  /\ Len(result.cues) = Len(blocks)
                  /\ \A i \in 1..Len(blocks) :
                        result.cues[i].index
                            = IF blocks[i].index >= 0 THEN blocks[i].index ELSE i


\* C18: parse_timestamp(format_timestamp(t)) is within one millisecond of t.
C18_RoundTripWithinOneMs ==
    output.done =>
        /\ output.value - input.t <= TicksPerMs
        /\ input.t - output.value <= TicksPerMs

\* A timestamp whose fraction rounds up to a full second: the text carries
\* 1000 in its millisecond field and reads back as the next second.
C18_FractionRoundsToSecond ==
    /\ output.done
    /\ output.text.ms = 1000
    /\ output.value > input.t
    /\ output.value % TicksPerSecond = 0


\* C19: the ledger file never loses a record; delete.py on a recorded video
\* keeps its id and history, sets download, transcription and split back to
\* their initial shapes, empties the translations and appends a delete entry
\* with status completed; on an unknown id it changes nothing.
C19_DeleteKeepsRecord ==
    [][/\ disk # NoFile =>
            (disk' # NoFile /\ Len(disk'.videos) >= Len(disk.videos))
       /\ run'.op = "delete" =>
            IF OnDisk(disk, run'.vid)
            THEN /\ OnDisk(disk', run'.vid)
                 /\ Len(disk'.videos) = Len(disk.videos)
                 /\ LET before == VideoOf(disk, run'.vid)
                        after == VideoOf(disk', run'.vid)
                    IN  /\ after.download = [status |-> "pending"]
                        /\ after.transcription = [status |-> "pending"]
                        /\ after.split = [status |-> "pending", parts |-> << >>]
                        /\ after.translations = EmptyDict
                        /\ Len(after.history) = Len(before.history) + 1
                        /\ SubSeq(after.history, 1, Len(before.history)) = before.history
                        /\ Last(after.history).event = "delete"
                        /\ Last(after.history).status = "completed"
            ELSE disk' = disk /\ fs' = fs]_vars

\* delete.py ran on a video that an earlier invocation had worked on.
C19_DeletedAfterRun ==
    /\ run.op = "delete"
    /\ OnDisk(disk, run.vid)
    /\ LET video == VideoOf(disk, run.vid)
       IN  /\ Len(video.history) = 2
           /\ video.history[1].status \in {"completed", "failed"}
           /\ video.history[2].event = "delete"
           /\ video.download = [status |-> "pending"]


\* Process q loaded the ledger before process p saved it, and saved after p.
SavedOver(p, q) ==
    /\ p # q
    /\ procs[p].pc = "saved"
    /\ procs[q].pc = "saved"
    /\ procs[q].loadedAt < procs[p].savedAt
    /\ procs[p].savedAt < procs[q].savedAt

Entries(history) == {history[k] : k \in 1..Len(history)}

\* C20: when two processes both load before either saves, the ledger file
\* after the second save is the second saver's copy: the history entry the
\* first saver appended, which its save had put in the file, is gone, and
\* the record is the second saver's.
C20_LastSaveWins ==
    \A p, q \in Procs :
        SavedOver(p, q) =>
            LET first == VideoOf(procs[p].mem, procs[p].vid)
                second == VideoOf(procs[q].mem, procs[q].vid)
            IN  /\ disk = procs[q].wrote
                /\ disk.videos = procs[q].mem.videos
                /\ Last(first.history) \in Entries(VideoOf(procs[p].wrote, procs[p].vid).history)
                /\ Last(first.history) \notin Entries(VideoOf(disk, procs[p].vid).history)
                /\ VideoOf(disk, procs[q].vid) = second

\* Two processes raced on a video that had a download on record: the first
\* saver's reset was in the file and the second save took it out again.
C20_ResetLost ==
    \E p, q \in Procs :
        /\ SavedOver(p, q)
        /\ procs[p].loadedAt < procs[q].savedAt
        /\ Len(VideoOf(procs[p].wrote, procs[p].vid).history) = 2
        /\ Len(VideoOf(disk, procs[p].vid).history) = 2
        /\ VideoOf(procs[p].wrote, procs[p].vid).download # VideoOf(disk, procs[p].vid).download


\* The time from the start of batch b to the end of its last cue, the start
\* being the end of the batch before it, or the first cue's start.
Elapsed(batches, b) ==
    Last(batches[b]).end
        - (IF b = 1 THEN batches[1][1].start ELSE Last(batches[b - 1]).end)

EventOfCap(cap) ==
    IF cap \in {"ar", "tr"} THEN "translate-" \o cap ELSE cap
ResetKeyOf(cap) ==
    IF cap \in {"ar", "tr"} THEN "translations." \o cap ELSE cap
Bearing(history, cap) ==
    {k \in 1..Len(history) :
        \/ history[k].event = EventOfCap(cap) /\ history[k].status # "skipped"
        \/ history[k].event = "reset:" \o ResetKeyOf(cap)
        \/ history[k].event = "delete"}
LastOf(positions) == CHOOSE k \in positions : \A j \in positions : j <= k

\* C22: in the ledger file a step is completed (failed) only if the last
\* entry bearing on it is a completed (failed) entry of its capability, and
\* after a reset or a delete the step is pending or the translation absent.
C22_StatusAgreesWithHistory ==
    disk # NoFile =>
        \A i \in 1..Len(disk.videos), cap \in Capabilities :
            LET video == disk.videos[i]
                status == StepStatus(TrackedStep(video, cap))
                bearing == Bearing(video.history, cap)
                last == video.history[LastOf(bearing)]
            IN  /\ status \in {"completed", "failed"} =>
                      /\ bearing # {}
                      /\ last.event = EventOfCap(cap)
                      /\ last.status = status
                /\ (bearing # {} /\ last.event # EventOfCap(cap)) =>
                      status \in {"pending", None}
                /\ status = None => cap \in {"ar", "tr"}

\* A split that had completed and that a delete put back to pending.
C22_DeleteAfterSplit ==
    /\ OnDisk(disk, "v1")
    /\ LET video == VideoOf(disk, "v1")
       IN  /\ Len(video.history) = 2
           /\ video.history[1].event = "split"
           /\ video.history[1].status = "completed"
           /\ video.history[2].event = "delete"
           /\ StepStatus(video.split) = "pending"


\* C23: when translate.py records a completed translation, the file at the
\* recorded srtPath was written by that invocation.
C23_CompletedTranslationWasWritten ==
    (/\ run.op = "translate"
     /\ run.saves = 1
     /\ ~run.raised
     /\ Last(VideoOf(disk, run.vid).history).status = "completed")
        => LET step == VideoOf(disk, run.vid).translations[run.arg]
           IN  /\ step.status = "completed"
               /\ step.srtPath \in run.wrote
               /\ Exists(fs, step.srtPath)


\* C24: format_timestamp always emits milliseconds in 0..999, seconds in
\* 0..59 and minutes in 0..59, also when the fraction rounds up to a second.
C24_FieldsInRange ==
    output.done =>
        /\ output.text.ms \in 0..999
        /\ output.text.seconds \in 0..59
        /\ output.text.minutes \in 0..59


\* C25: the fresh ledger load_db returns when there is no ledger file has
\* version 1, no videos and the analytics compute_analytics gives for no
\* videos.  Seen in a script that loads it and returns without saving.
C25_FreshLedgerHasComputedAnalytics ==
    (/\ run.loaded
     /\ run.saves = 0
     /\ ~run.raised
     /\ disk = NoFile)
        => /\ run.mem.version = 1
           /\ run.mem.videos = << >>
           /\ run.mem.analytics = compute_analytics(<< >>)


====
